---- MODULE Spec2Model ----
(***************************************************************************)
(* Model of src/app.py: the POST /extract_metadata route                    *)
(* (handle_extract_metadata) and the extraction routine extract_metadata.   *)
(* One request is handled at a time; each action is one step of the code,   *)
(* sequenced by pc.  What the outside world answers (the HTTP transport,    *)
(* the mutagen detectors and accessors) is drawn from small sets; creating, *)
(* writing and removing files on local temporary storage does not fail.     *)
(* Python strings are sequences of one-character strings, so that           *)
(* startswith, split and int are computed rather than assumed.              *)
(***************************************************************************)
EXTENDS Integers, Sequences, FiniteSets, TLC

\* Number of requests served in one behaviour.
MaxCalls == 2

\* Number of requests on /api/songs served in one behaviour.
MaxRequests == 2

\* datetime.now().year at the time of the call.
CurrentYear == 2026

(***************************************************************************)
(* Python values                                                           *)
(***************************************************************************)
None == [k |-> "None"]
Str(s) == [k |-> "str", s |-> s]
PyNum(n) == [k |-> "int", n |-> n]
\* An object that is neither a str nor a number (an ID3TimeStamp, a list).
Obj == [k |-> "obj"]

\* Python truth value of v, as tested by `not v`, `if v:` and `v or d`.
Truthy(v) ==
    CASE v.k = "None" -> FALSE
      [] v.k = "str" -> Len(v.s) > 0
      [] v.k = "int" -> v.n # 0
      [] OTHER -> TRUE

\* v or d
PyOr(v, d) == IF Truthy(v) THEN v ELSE d

\* s.startswith(p)
StartsWith(s, p) == Len(s) >= Len(p) /\ SubSeq(s, 1, Len(p)) = p

\* url.startswith(('http://', 'https://'))
HasHttpScheme(s) ==
    \/ StartsWith(s, <<"h", "t", "t", "p", ":", "/", "/">>)
    \/ StartsWith(s, <<"h", "t", "t", "p", "s", ":", "/", "/">>)

\* A variant that forgets the split: the whole string.
SplitWhole(s) == s

\* s.split('-')[0]: the characters before the first '-'.
RECURSIVE SplitFirst(_)
SplitFirst(s) ==
    IF s = <<>> \/ Head(s) = "-" THEN <<>>
    ELSE <<Head(s)>> \o SplitFirst(Tail(s))

IsSpace(c) == c \in {" ", "\t", "\n"}
IsDigit(c) == c \in {"0", "1", "2", "3", "4", "5", "6", "7", "8", "9"}

DigitVal(c) ==
    CASE c = "0" -> 0 [] c = "1" -> 1 [] c = "2" -> 2 [] c = "3" -> 3
      [] c = "4" -> 4 [] c = "5" -> 5 [] c = "6" -> 6 [] c = "7" -> 7
      [] c = "8" -> 8 [] c = "9" -> 9

RECURSIVE LStrip(_)
LStrip(s) == IF s # <<>> /\ IsSpace(Head(s)) THEN LStrip(Tail(s)) ELSE s

RECURSIVE RStrip(_)
RStrip(s) ==
    IF s # <<>> /\ IsSpace(s[Len(s)]) THEN RStrip(SubSeq(s, 1, Len(s) - 1)) ELSE s

\* The digits of an int literal body: digits, single underscores between them.
WellFormedDigits(u) ==
    /\ u # <<>>
    /\ \A i \in 1..Len(u) : IsDigit(u[i]) \/ u[i] = "_"
    /\ IsDigit(u[1]) /\ IsDigit(u[Len(u)])
    /\ \A i \in 1..(Len(u) - 1) : ~(u[i] = "_" /\ u[i + 1] = "_")

RECURSIVE DigitsValue(_, _)
DigitsValue(u, acc) ==
    IF u = <<>> THEN acc
    ELSE IF Head(u) = "_" THEN DigitsValue(Tail(u), acc)
    ELSE DigitsValue(Tail(u), 10 * acc + DigitVal(Head(u)))

\* int(s) for a str s: [ok |-> FALSE] stands for ValueError.
PyInt(s) ==
    LET t == RStrip(LStrip(s))
        signed == t # <<>> /\ Head(t) \in {"+", "-"}
        u == IF signed THEN Tail(t) ELSE t
        mag == DigitsValue(u, 0)
    IN  IF WellFormedDigits(u)
        THEN [ok |-> TRUE, n |-> IF signed /\ Head(t) = "-" THEN 0 - mag ELSE mag]
        ELSE [ok |-> FALSE, n |-> 0]

\* int(date.split('-')[0])
YearOf(s) == PyInt(SplitFirst(s))

(***************************************************************************)
(* Inputs                                                                  *)
(***************************************************************************)
UrlHttp == <<"h", "t", "t", "p", ":", "/", "/", "a">>
UrlHttps == <<"h", "t", "t", "p", "s", ":", "/", "/", "a">>
UrlFtp == <<"f", "t", "p", ":", "/", "/", "a">>
UrlNoScheme == <<"a", ".", "m", "p", "3">>
UrlUpper == <<"H", "T", "T", "P", ":", "/", "/", "a">>
UrlOneSlash == <<"h", "t", "t", "p", ":", "/", "a">>

\* Values the "url" key of the JSON body can hold.
UrlValues ==
    {Str(UrlHttp), Str(UrlHttps), Str(UrlFtp), Str(UrlNoScheme), Str(UrlUpper),
     Str(UrlOneSlash), Str(<<>>), PyNum(5), None}

\* What request.get_json() gives: it raises (body is not JSON), or returns
\* None, an empty object, an object without "url", a non-empty list (with or
\* without the element "url"), a non-zero number, or an object with "url".
Bodies ==
    {[k |-> "raise"], None, [k |-> "dict", hasUrl |-> FALSE, empty |-> TRUE],
     [k |-> "dict", hasUrl |-> FALSE, empty |-> FALSE],
     [k |-> "list", hasUrl |-> FALSE], [k |-> "list", hasUrl |-> TRUE],
     [k |-> "number"]}
    \cup {[k |-> "dict", hasUrl |-> TRUE, empty |-> FALSE, url |-> u] : u \in UrlValues}

TestSong == <<"S", "o", "n", "g">>
TestArtist == <<"A", "r", "t">>
RawTitle == <<"R", "t">>
RawArtist == <<"R", "a">>
UnknownTitle == <<"U", "n", "k", "n", "o", "w", "n", " ", "T", "i", "t", "l", "e">>
UnknownArtist == <<"U", "n", "k", "n", "o", "w", "n", " ", "A", "r", "t", "i", "s", "t">>
Placeholder == <<"p", "l", "a", "c", "e", "h", "o", "l", "d", "e", "r">>

Date2020 == <<"2", "0", "2", "0", "-", "0", "5", "-", "0", "1">>
Date0000 == <<"0", "0", "0", "0", "-", "0", "1", "-", "0", "1">>
DateBad == <<"a", "b", "c", "d">>
Date1999 == <<"1", "9", "9", "9">>

\* What EasyID3(temp_path) and its three get calls give: the constructor
\* raises, or the accessor yields a title, an artist and a date.
EasyOutcomes ==
    {[k |-> "raise"]}
    \cup [k : {"ok"},
          title : {None, Str(<<>>), Str(TestSong)},
          artist : {None, Str(<<>>), Str(TestArtist)},
          date : {None, Str(Date2020), Str(Date0000), Str(DateBad)}]

\* audio.tags: None (the file has no tag container) or a mapping whose get
\* gives, for 'TIT2', 'TPE1' and 'TDRC', the value at index 0.
TagContainers ==
    {None}
    \cup [k : {"tags"},
          TIT2 : {None, Str(RawTitle)},
          TPE1 : {None, Str(<<>>), Str(RawArtist)},
          TDRC : {None, Str(Date1999), Str(DateBad), Obj}]

\* What mutagen.File(temp_path) gives: it raises, returns None, or returns
\* a FileType object (which always has a tags attribute).
FileOutcomes ==
    {[k |-> "raise"], None}
    \cup [k : {"audio"}, isMP3 : BOOLEAN, tags : TagContainers]

\* What the cover step meets: ID3() raises, no 'APIC:' frame, or a frame
\* whose payload is written to a new file.
CoverOutcomes == {"raise", "noapic", "written"}

VARIABLES
    pc,          \* position in the code
    calls,       \* requests received so far
    data,        \* request.get_json()
    response,    \* outcome of requests.get
    fs,          \* temporary files that exist on disk
    temp_path,   \* local of extract_metadata
    image_url,   \* local of extract_metadata
    audio,       \* local of extract_metadata
    easy,        \* what the primary accessor gave
    title, artist, year,   \* locals of extract_metadata
    metadata,    \* return value of extract_metadata ("unset" before it returns)
    status,      \* HTTP status of the answer (0: not answered yet)
    body,        \* JSON object of a 200 answer
    hist,        \* what has happened while handling the current request
    songs,       \* the committed rows of the song table, by id
    apiCalls,    \* requests on /api/songs received so far
    apiReq,      \* the last request on /api/songs
    apiStatus,   \* HTTP status of its answer (0: none yet)
    before       \* the song table when that request arrived

vars == <<pc, calls, data, response, fs, temp_path, image_url, audio, easy,
          title, artist, year, metadata, status, body, hist,
          songs, apiCalls, apiReq, apiStatus, before>>

\* The state of the song catalog and of its routes.
catVars == <<songs, apiCalls, apiReq, apiStatus, before>>

\* The state of the metadata extraction route.
extractVars == <<pc, calls, data, response, fs, temp_path, image_url, audio,
                 easy, title, artist, year, metadata, status, body, hist>>

Unset == [k |-> "unset"]

NoHist ==
    [netCalls |-> 0, extractCalled |-> FALSE, parsed |-> FALSE, created |-> {},
     downloaded |-> None, cover |-> None, exc |-> {}]

Locals0 ==
    /\ data = Unset /\ response = Unset /\ temp_path = None /\ image_url = None
    /\ audio = Unset /\ easy = Unset /\ title = None /\ artist = None /\ year = None
    /\ metadata = Unset /\ status = 0 /\ body = Unset /\ hist = NoHist

\* db.create_all() on a new database: an empty song table.
Catalog0 ==
    /\ songs = [i \in {} |-> None] /\ apiCalls = 0
    /\ apiReq = [op |-> "none"] /\ apiStatus = 0
    /\ before = [i \in {} |-> None]

Init == pc = "idle" /\ calls = 0 /\ fs = {} /\ Locals0 /\ Catalog0

\* A POST /extract_metadata arrives: a fresh invocation of the handler.
Receive ==
    /\ pc \in {"idle", "done"}
    /\ UNCHANGED catVars
    /\ calls < MaxCalls
    /\ calls' = calls + 1
    /\ pc' = "handler"
    /\ \E b \in Bodies : data' = b
    /\ response' = Unset /\ temp_path' = None /\ image_url' = None
    /\ audio' = Unset /\ easy' = Unset /\ title' = None /\ artist' = None
    /\ year' = None /\ metadata' = Unset /\ status' = 0 /\ body' = Unset
    /\ hist' = NoHist
    /\ UNCHANGED fs

\* Lines 133-144 of handle_extract_metadata: "exc" when a statement raises
\* (caught at line 155), "400" for the two early returns, "call" when
\* extract_metadata is called.
HandlerOutcome(d) ==
    CASE d.k = "raise" -> "exc"
      [] d.k = "None" -> "400"
      [] d.k = "dict" /\ d.empty -> "400"
      [] d.k = "number" -> "exc"
      [] ~d.hasUrl -> "400"
      [] d.k = "list" -> "exc"
      [] d.url.k # "str" -> "exc"
      [] ~HasHttpScheme(d.url.s) -> "400"
      [] OTHER -> "call"

\* handle_extract_metadata up to the call of extract_metadata.
Handle ==
    /\ pc = "handler"
    /\ UNCHANGED catVars
    /\ LET o == HandlerOutcome(data) IN
         \/ /\ o = "400"
            /\ status' = 400 /\ pc' = "done" /\ hist' = hist
         \/ /\ o = "exc"
            /\ status' = 500 /\ pc' = "done"
            /\ hist' = [hist EXCEPT !.exc = @ \cup {"handler"}]
         \/ /\ o = "call"
            /\ status' = status /\ pc' = "get"
            /\ hist' = [hist EXCEPT !.extractCalled = TRUE]
    /\ UNCHANGED <<calls, data, response, fs, temp_path, image_url, audio, easy,
                   title, artist, year, metadata, body>>

\* What requests.get(url, stream=True) gives: it raises, or a response.
Responses == {[k |-> "raise"]} \cup [k : {"resp"}, code : {200, 404, 500}]

\* A variant that lets client errors through: only 5xx is a failure.
ResponseOkLax(r) == r.code < 500

\* response.ok
ResponseOk(r) == r.code < 400

\* Lines 40-43: the request is opened; a non-success status returns None,
\* an exception is caught at line 126 and returns None.
RequestsGet ==
    /\ pc = "get"
    /\ UNCHANGED catVars
    /\ \E r \in Responses :
         /\ response' = r
         /\ IF r.k = "raise"
            THEN /\ metadata' = None /\ pc' = "respond"
                 /\ hist' = [hist EXCEPT !.netCalls = @ + 1, !.exc = @ \cup {"get"}]
            ELSE /\ hist' = [hist EXCEPT !.netCalls = @ + 1]
                 /\ IF ResponseOk(r)
                    THEN metadata' = metadata /\ pc' = "stream"
                    ELSE metadata' = None /\ pc' = "respond"
    /\ UNCHANGED <<calls, data, fs, temp_path, image_url, audio, easy, title,
                   artist, year, status, body>>

\* The name tempfile.NamedTemporaryFile gives a new file: unlike every other.
NewName(suffix) == [call |-> calls, suffix |-> suffix]

\* Lines 46-49: the temporary file is made (delete=False) and the body is
\* streamed into it; the with block closes the file and never removes it.
\* An exception here leaves the inner try untouched and is caught at line 126.
Stream ==
    /\ pc = "stream"
    /\ UNCHANGED catVars
    /\ LET f == NewName(".mp3") IN
       \E o \in {"streamraise", "ok"} :
         \/ /\ o = "streamraise"
            /\ fs' = fs \cup {f} /\ temp_path' = temp_path
            /\ metadata' = None /\ pc' = "respond"
            /\ hist' = [hist EXCEPT !.exc = @ \cup {"stream"}, !.created = @ \cup {f}]
         \/ /\ o = "ok"
            /\ fs' = fs \cup {f} /\ temp_path' = f
            /\ metadata' = metadata /\ pc' = "file"
            /\ hist' = [hist EXCEPT !.created = @ \cup {f}, !.downloaded = f]
    /\ UNCHANGED <<calls, data, response, image_url, audio, easy, title, artist,
                   year, status, body>>

\* Lines 119-124: the handler of the inner try removes temp_path if it exists.
InnerExcept(files) == files \ {temp_path}

\* Lines 55-59: the format detector.
MutagenFile ==
    /\ pc = "file"
    /\ UNCHANGED catVars
    /\ \E a \in FileOutcomes :
         /\ audio' = a
         /\ \/ /\ a.k = "raise"
               /\ fs' = InnerExcept(fs)
               /\ metadata' = None /\ pc' = "respond"
               /\ hist' = [hist EXCEPT !.parsed = TRUE, !.exc = @ \cup {"file"}]
            \/ /\ a.k = "None"
               /\ fs' = fs
               /\ metadata' = None /\ pc' = "respond"
               /\ hist' = [hist EXCEPT !.parsed = TRUE]
            \/ /\ a.k = "audio"
               /\ fs' = fs
               /\ metadata' = metadata /\ pc' = "cover"
               /\ hist' = [hist EXCEPT !.parsed = TRUE]
    /\ UNCHANGED <<calls, data, response, temp_path, image_url, easy, title,
                   artist, year, status, body>>

\* hasattr(audio, 'tags')
HasTagsAttr(a) == "tags" \in DOMAIN a

\* ID3(temp_path) at line 73 reads the header File() read for an MP3: when
\* File() found none (tags is None) it raises.
CoverPossible(c) == audio.tags = None => c = "raise"

\* EasyID3(temp_path) at line 85 reads that same header.
EasyPossible(e) == (audio.isMP3 /\ audio.tags = None) => e.k = "raise"

\* A variant without the try of lines 72-82: an exception of ID3() reaches
\* the except of line 119 and the call returns None.
CoverFatal ==
    /\ pc = "cover"
    /\ UNCHANGED catVars
    /\ IF "tags" \in DOMAIN audio /\ audio.isMP3
       THEN LET f == NewName(".jpg") IN
            \E c \in CoverOutcomes :
              /\ CoverPossible(c)
              /\ \/ /\ c = "raise"
                    /\ fs' = InnerExcept(fs) /\ image_url' = image_url
                    /\ metadata' = None /\ pc' = "respond"
                    /\ hist' = [hist EXCEPT !.exc = @ \cup {"cover"}]
                 \/ /\ c = "noapic"
                    /\ fs' = fs /\ image_url' = image_url /\ hist' = hist
                    /\ metadata' = metadata /\ pc' = "primary"
                 \/ /\ c = "written"
                    /\ fs' = fs \cup {f} /\ image_url' = f
                    /\ hist' = [hist EXCEPT !.created = @ \cup {f}, !.cover = f]
                    /\ metadata' = metadata /\ pc' = "primary"
       ELSE /\ fs' = fs /\ image_url' = image_url /\ hist' = hist
            /\ metadata' = metadata /\ pc' = "primary"
    /\ UNCHANGED <<calls, data, response, temp_path, audio, easy, title, artist,
                   year, status, body>>

\* Lines 71-82: cover art of an MP3; every exception is caught at line 81.
Cover ==
    /\ pc = "cover"
    /\ UNCHANGED catVars
    /\ pc' = "primary"
    /\ IF HasTagsAttr(audio) /\ audio.isMP3
       THEN LET f == NewName(".jpg") IN
            \E c \in CoverOutcomes :
              /\ CoverPossible(c)
              /\ \/ /\ c = "raise"
                    /\ fs' = fs /\ image_url' = image_url
                    /\ hist' = [hist EXCEPT !.exc = @ \cup {"cover"}]
                 \/ /\ c = "noapic"
                    /\ fs' = fs /\ image_url' = image_url /\ hist' = hist
                 \/ /\ c = "written"
                    /\ fs' = fs \cup {f} /\ image_url' = f
                    /\ hist' = [hist EXCEPT !.created = @ \cup {f}, !.cover = f]
       ELSE fs' = fs /\ image_url' = image_url /\ hist' = hist
    /\ UNCHANGED <<calls, data, response, temp_path, audio, easy, title, artist,
                   year, metadata, status, body>>

\* Lines 84-93: the primary accessor; every exception is caught at line 92,
\* after the assignments that preceded it.
Primary ==
    /\ pc = "primary"
    /\ UNCHANGED catVars
    /\ pc' = "fallback"
    /\ IF HasTagsAttr(audio)
       THEN \E e \in EasyOutcomes :
              /\ EasyPossible(e)
              /\ easy' = e
              /\ IF e.k = "raise"
                 THEN /\ title' = title /\ artist' = artist /\ year' = year
                      /\ hist' = [hist EXCEPT !.exc = @ \cup {"primary"}]
                 ELSE /\ title' = e.title /\ artist' = e.artist
                      /\ IF Truthy(e.date)
                         THEN LET y == YearOf(e.date.s) IN
                              IF y.ok
                              THEN year' = PyNum(y.n) /\ hist' = hist
                              ELSE /\ year' = year
                                   /\ hist' = [hist EXCEPT !.exc = @ \cup {"primary_date"}]
                         ELSE year' = year /\ hist' = hist
       ELSE easy' = easy /\ title' = title /\ artist' = artist /\ year' = year
            /\ hist' = hist
    /\ UNCHANGED <<calls, data, response, fs, temp_path, image_url, audio,
                   metadata, status, body>>

\* A variant that reads the raw frame whatever the primary accessor gave.
NeedsFallbackAlways(v) == "tags" \in DOMAIN audio

\* The test `not v and hasattr(audio, 'tags')` of lines 96, 98 and 100.
NeedsFallback(v) == ~Truthy(v) /\ HasTagsAttr(audio)

\* audio.tags.get(key, [None])[0] on a tag container that is not None.
RawFrame(key) ==
    CASE key = "TIT2" -> audio.tags.TIT2
      [] key = "TPE1" -> audio.tags.TPE1
      [] key = "TDRC" -> audio.tags.TDRC

\* Lines 96-103 as a whole: [raised, where, title, artist, year].  Calling
\* get on a tags attribute that is None raises AttributeError; so does split
\* on a value that is not a str; int raises ValueError.  None of them is
\* caught before line 119.
FallbackResult ==
    LET noTags == audio.tags.k = "None"
        t1 == IF NeedsFallback(title) /\ ~noTags THEN RawFrame("TIT2") ELSE title
        a1 == IF NeedsFallback(artist) /\ ~noTags THEN RawFrame("TPE1") ELSE artist
        ys == IF NeedsFallback(year) /\ ~noTags THEN RawFrame("TDRC") ELSE None
        conv == IF ys.k = "str" THEN YearOf(ys.s) ELSE [ok |-> FALSE, n |-> 0]
    IN  IF noTags /\ (NeedsFallback(title) \/ NeedsFallback(artist) \/ NeedsFallback(year))
        THEN [raised |-> TRUE, where |-> "fallback_tags", title |-> title,
              artist |-> artist, year |-> year]
        ELSE IF Truthy(ys) /\ ~conv.ok
        THEN [raised |-> TRUE, where |-> "fallback_date", title |-> t1,
              artist |-> a1, year |-> year]
        ELSE [raised |-> FALSE, where |-> "",  title |-> t1, artist |-> a1,
              year |-> IF Truthy(ys) THEN PyNum(conv.n) ELSE year]

\* Lines 96-103, and lines 119-124 when one of them raises.
Fallback ==
    /\ pc = "fallback"
    /\ UNCHANGED catVars
    /\ LET r == FallbackResult IN
         /\ title' = r.title /\ artist' = r.artist /\ year' = r.year
         /\ IF r.raised
            THEN /\ fs' = InnerExcept(fs)
                 /\ metadata' = None /\ pc' = "respond"
                 /\ hist' = [hist EXCEPT !.exc = @ \cup {r.where}]
            ELSE /\ fs' = fs /\ metadata' = metadata /\ pc' = "cleanup"
                 /\ hist' = hist
    /\ UNCHANGED <<calls, data, response, temp_path, image_url, audio, easy,
                   status, body>>

\* Lines 112-117: the record returned, with its defaults.
Record(t, a, y) ==
    [title |-> PyOr(t, Str(UnknownTitle)),
     singer |-> PyOr(a, Str(UnknownArtist)),
     image_url |-> Str(Placeholder),
     year |-> PyOr(y, PyNum(CurrentYear))]

\* Lines 108-117: both temporary files are removed and the record returned.
CleanupReturn ==
    /\ pc = "cleanup"
    /\ UNCHANGED catVars
    /\ fs' = (fs \ {temp_path}) \ (IF image_url # None THEN {image_url} ELSE {})
    /\ metadata' = Record(title, artist, year)
    /\ pc' = "respond"
    /\ UNCHANGED <<calls, data, response, temp_path, image_url, audio, easy,
                   title, artist, year, status, body, hist>>

\* Lines 148-153: the status answered for a return value of extract_metadata.
AnswerStatus(m) == IF m = None THEN 500 ELSE 200

\* Lines 148-153 of handle_extract_metadata.
Respond ==
    /\ pc = "respond"
    /\ UNCHANGED catVars
    /\ status' = AnswerStatus(metadata)
    /\ body' = IF metadata = None THEN body ELSE metadata
    /\ pc' = "done"
    /\ UNCHANGED <<calls, data, response, fs, temp_path, image_url, audio, easy,
                   title, artist, year, metadata, hist>>

Next ==
    \/ Receive
    \/ Handle
    \/ RequestsGet
    \/ Stream
    \/ MutagenFile
    \/ Cover
    \/ Primary
    \/ Fallback
    \/ CleanupReturn
    \/ Respond

Spec == Init /\ [][Next]_vars

(***************************************************************************)
(* The song catalog: POST /api/songs, DELETE and PUT /api/songs/<id>.       *)
(* Each request is one action: the whole handler, commit or rollback        *)
(* included.                                                               *)
(***************************************************************************)
\* A key the JSON body does not have.
Absent == [k |-> "absent"]

\* The columns a request can set.
Fields == {"title", "singer", "song_url", "image_url", "year"}

\* What request.get_json() gives on the song routes: it raises, returns
\* None, or returns an object; f gives each key its value, or Absent.
ApiBodies ==
    {[k |-> "raise"], None}
    \cup [k : {"dict"},
          f : [title : {Absent, None, Str(TestSong), Str(RawTitle)},
               singer : {Absent, Str(TestArtist)},
               song_url : {Absent, Str(UrlHttp)},
               image_url : {Absent, Str(Placeholder)},
               year : {Absent, None, PyNum(5), Str(Date1999), Str(DateBad)}]]

\* The ids a DELETE or a PUT names.
RequestIds == 1..MaxRequests

\* `not data`: the body is None or an object without keys.
NoData(d) == d.k = "None" \/ (d.k = "dict" /\ \A c \in Fields : d.f[c] = Absent)

\* int(v): a number as it is, a str parsed; [ok |-> FALSE] stands for the
\* ValueError of a str that is no number and the TypeError of None.
IntOf(v) ==
    CASE v.k = "int" -> [ok |-> TRUE, n |-> v.n]
      [] v.k = "str" -> PyInt(v.s)
      [] OTHER -> [ok |-> FALSE, n |-> 0]

\* Every column of Song is nullable=False: a row holding None is refused
\* when the session is flushed by commit.
RowValid(row) == \A c \in Fields : row[c] # None

\* The id a new row gets: one more than the largest id in the table.
NewId(db) ==
    IF DOMAIN db = {} THEN 1
    ELSE (CHOOSE i \in DOMAIN db : \A j \in DOMAIN db : j <= i) + 1

\* A variant of rollback that writes the pending changes.
RollbackKeeps(committed, session) == session

\* db.session.rollback(): the table is what was committed, whatever the
\* session holds.
Rollback(committed, session) == committed

\* Song.query.get_or_404(song_id) raises NotFound for an id that is not in
\* the table; NotFound is an Exception, answered by the handler's except.
LookupRaises(db, id) == id \notin DOMAIN db

\* add_song: the table and the status it leaves.
AddOutcome(db, d) ==
    IF d.k = "raise" THEN [songs |-> Rollback(db, db), status |-> 500]
    ELSE IF NoData(d) THEN [songs |-> db, status |-> 400]
    ELSE IF \E c \in Fields : d.f[c] = Absent THEN [songs |-> db, status |-> 400]
    ELSE LET y == IntOf(d.f.year)
             row == [title |-> d.f.title, singer |-> d.f.singer,
                     song_url |-> d.f.song_url, image_url |-> d.f.image_url,
                     year |-> PyNum(y.n)]
             n == NewId(db)
             session == [i \in DOMAIN db \cup {n} |-> IF i = n THEN row ELSE db[i]]
         IN  IF ~y.ok THEN [songs |-> Rollback(db, db), status |-> 500]
             ELSE IF RowValid(row) THEN [songs |-> session, status |-> 201]
             ELSE [songs |-> Rollback(db, session), status |-> 500]

\* delete_song: the table and the status it leaves.
DeleteOutcome(db, id) ==
    IF LookupRaises(db, id) THEN [songs |-> Rollback(db, db), status |-> 500]
    ELSE [songs |-> [i \in DOMAIN db \ {id} |-> db[i]], status |-> 200]

\* Lines 257-264: the four assignments that precede the year's.
Assigned(row, d) ==
    [c \in Fields |-> IF c # "year" /\ d.f[c] # Absent THEN d.f[c] ELSE row[c]]

\* edit_song: the table and the status it leaves.
EditOutcome(db, id, d) ==
    IF LookupRaises(db, id) THEN [songs |-> Rollback(db, db), status |-> 500]
    ELSE IF d.k = "raise" THEN [songs |-> Rollback(db, db), status |-> 500]
    ELSE IF NoData(d) THEN [songs |-> db, status |-> 400]
    ELSE LET row1 == Assigned(db[id], d)
             y == IntOf(d.f.year)
             row2 == IF d.f.year = Absent THEN row1
                     ELSE [row1 EXCEPT !.year = PyNum(y.n)]
         IN  IF d.f.year # Absent /\ ~y.ok
             THEN [songs |-> Rollback(db, [db EXCEPT ![id] = row1]), status |-> 500]
             ELSE IF RowValid(row2)
             THEN [songs |-> [db EXCEPT ![id] = row2], status |-> 200]
             ELSE [songs |-> Rollback(db, [db EXCEPT ![id] = row2]), status |-> 500]

\* POST /api/songs
AddSong ==
    /\ apiCalls < MaxRequests
    /\ \E d \in ApiBodies :
         LET o == AddOutcome(songs, d) IN
         /\ songs' = o.songs /\ apiStatus' = o.status
         /\ apiReq' = [op |-> "POST", id |-> 0, data |-> d]
    /\ before' = songs
    /\ apiCalls' = apiCalls + 1
    /\ UNCHANGED extractVars

\* DELETE /api/songs/<id>
DeleteSong ==
    /\ apiCalls < MaxRequests
    /\ \E id \in RequestIds :
         LET o == DeleteOutcome(songs, id) IN
         /\ songs' = o.songs /\ apiStatus' = o.status
         /\ apiReq' = [op |-> "DELETE", id |-> id, data |-> None]
    /\ before' = songs
    /\ apiCalls' = apiCalls + 1
    /\ UNCHANGED extractVars

\* PUT /api/songs/<id>
EditSong ==
    /\ apiCalls < MaxRequests
    /\ \E id \in RequestIds, d \in ApiBodies :
         LET o == EditOutcome(songs, id, d) IN
         /\ songs' = o.songs /\ apiStatus' = o.status
         /\ apiReq' = [op |-> "PUT", id |-> id, data |-> d]
    /\ before' = songs
    /\ apiCalls' = apiCalls + 1
    /\ UNCHANGED extractVars

NextCatalog ==
    \/ AddSong
    \/ DeleteSong
    \/ EditSong

SpecCatalog == Init /\ [][NextCatalog]_vars

(***************************************************************************)
(* Properties                                                              *)
(***************************************************************************)
\* extract_metadata has returned.
Returned == metadata # Unset

\* extract_metadata has returned a record.
ReturnedRecord == Returned /\ metadata # None

\* Temporary files made by the current call that still exist.
LeftBehind == hist.created \cap fs

\* C1: when the download succeeds and the format detector returns no audio
\* object, extract_metadata returns None and the downloaded temporary file
\* no longer exists when it returns.
C1_UnrecognisedPayloadCleansUp ==
    (Returned /\ audio = None) => (metadata = None /\ hist.downloaded \notin fs)

\* C2: a cover-art file written by a call has been deleted by the time the
\* call returns, on every exit path.
C2_CoverFileDeleted ==
    (Returned /\ image_url # None) => image_url \notin fs

\* C3: for a non-success response status extract_metadata returns None, and
\* it does so before any temporary file is created and before any tag
\* parsing step is attempted.
C3_NonSuccessFailsEarly ==
    (response.k = "resp" /\ response.code >= 400)
        => /\ metadata = None
           /\ pc \in {"respond", "done"}
           /\ hist.created = {}
           /\ ~hist.parsed
           /\ audio = Unset /\ easy = Unset

\* A 404 was answered by the remote server and the request has been served.
C3_Witness ==
    pc = "done" /\ response.k = "resp" /\ response.code = 404 /\ status = 500

\* C4: a file recognised as audio whose tag container is absent gives the
\* record of defaults, not a failure.
C4_NoTagsGivesDefaults ==
    (Returned /\ audio.k = "audio" /\ audio.tags = None /\ easy.k = "raise")
        => metadata = Record(None, None, None)

\* What the primary accessor yielded for each field (None: nothing).
PrimaryTitle == IF easy.k = "ok" THEN easy.title ELSE None
PrimaryArtist == IF easy.k = "ok" THEN easy.artist ELSE None
PrimaryYear ==
    IF easy.k = "ok" /\ easy.date.k = "str" /\ Len(easy.date.s) > 0
                     /\ YearOf(easy.date.s).ok
    THEN PyNum(YearOf(easy.date.s).n) ELSE None

\* What the raw frames hold for each field (None: nothing).
RawTitleValue == IF audio.tags.k = "tags" THEN audio.tags.TIT2 ELSE None
RawArtistValue == IF audio.tags.k = "tags" THEN audio.tags.TPE1 ELSE None
RawYearValue ==
    IF audio.tags.k = "tags" /\ audio.tags.TDRC.k = "str"
                             /\ YearOf(audio.tags.TDRC.s).ok
    THEN PyNum(YearOf(audio.tags.TDRC.s).n) ELSE None

\* "v is a value": anything but None when strict, a non-empty string or a
\* non-zero number otherwise.
IsValue(v, strict) == IF strict THEN v # None ELSE Truthy(v)

\* The precedence law for one field of the returned record.
FieldLaw(p, f, got, strict) ==
    /\ (~IsValue(p, strict) /\ IsValue(f, strict)) => got = f
    /\ IsValue(p, strict) => got = p

PrecedenceLaw(strict) ==
    ReturnedRecord =>
        /\ FieldLaw(PrimaryTitle, RawTitleValue, metadata.title, strict)
        /\ FieldLaw(PrimaryArtist, RawArtistValue, metadata.singer, strict)
        /\ FieldLaw(PrimaryYear, RawYearValue, metadata.year, strict)

\* C5 as stated: per field, a returned record carries the fallback's value
\* when the primary accessor yields none and the fallback yields one, and
\* the primary value when the primary accessor yields one.
C5_PrecedenceAnyValue == PrecedenceLaw(TRUE)

\* C5 as amended: the same law, where an empty string and the year 0 count
\* as no value, for the primary accessor and for the fallback alike.
C5_PrecedenceNonEmptyValue == PrecedenceLaw(FALSE)

\* A record whose title came from the raw frame and whose artist and year
\* came from the primary accessor.
C5_Witness ==
    /\ pc = "done" /\ ReturnedRecord
    /\ PrimaryTitle = None /\ metadata.title = Str(RawTitle)
    /\ metadata.singer = Str(TestArtist)
    /\ metadata.year = PyNum(2020)

\* The digits before the first '-' of a date, read as a number, written
\* without the code's split and int.
RECURSIVE LeadingNumber(_, _)
LeadingNumber(s, acc) ==
    IF s = <<>> \/ ~IsDigit(Head(s)) THEN acc
    ELSE LeadingNumber(Tail(s), 10 * acc + DigitVal(Head(s)))

\* s has the form YYYY-MM-DD.
IsIsoDate(s) ==
    /\ Len(s) = 10
    /\ s[5] = "-" /\ s[8] = "-"
    /\ \A i \in {1, 2, 3, 4, 6, 7, 9, 10} : IsDigit(s[i])

\* The tags hold a title, an artist and a date of the form YYYY-MM-DD.
CompleteTags ==
    /\ easy.k = "ok"
    /\ easy.title.k = "str" /\ easy.artist.k = "str"
    /\ easy.date.k = "str" /\ IsIsoDate(easy.date.s)

\* The record C6 announces, and no temporary file left.
CompleteRecord ==
    /\ metadata = [title |-> easy.title, singer |-> easy.artist,
                   image_url |-> Str(Placeholder),
                   year |-> PyNum(LeadingNumber(easy.date.s, 0))]
    /\ LeftBehind = {}

IsPrefix(p, s) == Len(p) <= Len(s) /\ \A i \in 1..Len(p) : s[i] = p[i]

\* The body has a url that is a string starting with http:// or https://.
WellFormedUrl ==
    /\ data.k = "dict" /\ data.hasUrl /\ data.url.k = "str"
    /\ \/ IsPrefix(<<"h", "t", "t", "p", ":", "/", "/">>, data.url.s)
       \/ IsPrefix(<<"h", "t", "t", "p", "s", ":", "/", "/">>, data.url.s)

\* The body has a url.
HasUrl == data.k = "dict" /\ data.hasUrl

\* C7: a request whose url does not start with http:// or https:// is
\* answered 400 and makes no network call and no call of extract_metadata.
C7_BadSchemeRejected ==
    (pc = "done" /\ HasUrl /\ ~WellFormedUrl)
        => (status = 400 /\ hist.netCalls = 0 /\ ~hist.extractCalled)

\* C8: the answer is 400 when the url is missing or malformed, 500 when
\* extract_metadata returned None, and 200 with exactly the four fields
\* otherwise; nothing else is answered.
C8_StatusByCause ==
    pc = "done" =>
        /\ status = (IF ~WellFormedUrl THEN 400
                     ELSE IF metadata = None THEN 500 ELSE 200)
        /\ status = 200 => DOMAIN body = {"title", "singer", "image_url", "year"}

\* The failures confined to one field or one strategy.
FieldLevel == {"primary", "primary_date", "fallback_tags", "fallback_date"}

\* C9: a failure confined to one field or one strategy never makes
\* extract_metadata return None: a record is returned in which the fields
\* the primary accessor read keep their values.
C9_FieldFailuresAreLocal ==
    (Returned /\ hist.exc \cap FieldLevel # {} /\ hist.exc \subseteq FieldLevel \cup {"cover"})
        => /\ metadata # None
           /\ Truthy(PrimaryTitle) => metadata.title = PrimaryTitle
           /\ Truthy(PrimaryArtist) => metadata.singer = PrimaryArtist

\* C10: when the transport raises, on opening the request or while the
\* body is streamed, extract_metadata returns None and no temporary file it
\* created exists when it returns.
C10_TransportExceptionCleansUp ==
    (Returned /\ hist.exc \cap {"get", "stream"} # {})
        => (metadata = None /\ LeftBehind = {})

\* What a call returns for the audio object and the primary accessor's
\* answer it met, told from those two alone: None when a raw-frame read
\* raises, the record with its defaults otherwise.
ReturnWithoutCover ==
    LET wantT == ~Truthy(PrimaryTitle)
        wantA == ~Truthy(PrimaryArtist)
        wantY == ~Truthy(PrimaryYear)
        noTags == audio.tags = None
        rawY == IF noTags THEN None ELSE audio.tags.TDRC
        t == IF wantT THEN RawTitleValue ELSE PrimaryTitle
        a == IF wantA THEN RawArtistValue ELSE PrimaryArtist
        y == IF wantY /\ Truthy(rawY) THEN RawYearValue ELSE PrimaryYear
    IN  IF \/ noTags /\ (wantT \/ wantA \/ wantY)
           \/ wantY /\ Truthy(rawY) /\ RawYearValue = None
        THEN None
        ELSE [title |-> IF Truthy(t) THEN t ELSE Str(UnknownTitle),
              singer |-> IF Truthy(a) THEN a ELSE Str(UnknownArtist),
              image_url |-> Str(Placeholder),
              year |-> IF Truthy(y) THEN y ELSE PyNum(CurrentYear)]

C11_WitnessWritten ==
    pc = "done" /\ status = 200 /\ ReturnedRecord /\ hist.cover # None

\* C12: a DELETE or a PUT on an id that is not in the catalog is answered
\* 404 and leaves the catalog unchanged.
C12_MissingIdIs404 ==
    (apiReq.op \in {"DELETE", "PUT"} /\ apiReq.id \notin DOMAIN before)
        => (apiStatus = 404 /\ songs = before)

\* C13: a request on the catalog answered with an error status (400 or
\* 500) left the catalog exactly as it was before that request: a PUT whose
\* year does not convert keeps none of the values it assigned, a POST
\* missing a required field inserts nothing.
C13_ErrorsLeaveCatalog == apiStatus \in {400, 500} => songs = before

\* A PUT named an existing song, assigned it another title and failed on
\* the conversion of the year.
C13_Witness ==
    /\ apiReq.op = "PUT" /\ apiStatus = 500
    /\ apiReq.id \in DOMAIN before
    /\ apiReq.data.k = "dict"
    /\ apiReq.data.f.title.k = "str"
    /\ apiReq.data.f.title # before[apiReq.id].title
    /\ apiReq.data.f.year = Str(DateBad)
    /\ songs = before

\* A POST without the key year was answered 400 on a catalog that holds a
\* song.
C13_WitnessPost ==
    /\ apiReq.op = "POST" /\ apiStatus = 400
    /\ apiReq.data.k = "dict" /\ apiReq.data.f.year = Absent
    /\ apiReq.data.f.title # Absent
    /\ DOMAIN songs # {}
====
